---- MODULE Spec2Model ----
(***************************************************************************)
(* Separable filtering image rescaler (resampler.cpp): the contributor     *)
(* list builder, the scan-line buffer pool and the put_line / get_line     *)
(* streaming engine.                                                       *)
(*                                                                         *)
(* Resample_Real values are modelled as exact rationals <<n, d>> (d > 0,   *)
(* lowest terms) everywhere except in the Fl* operators, which model       *)
(* binary floating point arithmetic with round-to-nearest-even.            *)
(***************************************************************************)
EXTENDS Integers, Sequences, FiniteSets, TLC

(***************************************************************************)
(* Bounds of the model.                                                    *)
(***************************************************************************)
\* Capacity of the scan-line pool (1024 in the reference build); the model
\* has a small pool so that images taller than the pool occur.
MAX_SCAN_BUF_SIZE == 2
\* Largest source / destination height the engine is constructed with.
MaxSrcY == 4
MaxDstY == 3

(***************************************************************************)
(* Exact rational arithmetic.                                              *)
(***************************************************************************)
RECURSIVE Gcd(_, _)
Gcd(a, b) == IF b = 0 THEN a ELSE Gcd(b, a % b)

Abs(x) == IF x < 0 THEN -x ELSE x

\* The rational n/d in lowest terms with a positive denominator.
Rat(n, d) ==
  LET s == IF d < 0 THEN -1 ELSE 1
      g == Gcd(Abs(n), Abs(d))
  IN  <<(s * n) \div g, (s * d) \div g>>

RInt(k) == <<k, 1>>
RAdd(a, b) == Rat(a[1] * b[2] + b[1] * a[2], a[2] * b[2])
RSub(a, b) == Rat(a[1] * b[2] - b[1] * a[2], a[2] * b[2])
RMul(a, b) == Rat(a[1] * b[1], a[2] * b[2])
RDiv(a, b) == Rat(a[1] * b[2], a[2] * b[1])
RLt(a, b) == a[1] * b[2] < b[1] * a[2]
RLe(a, b) == a[1] * b[2] <= b[1] * a[2]
RNeg(a) == <<-a[1], a[2]>>
\* std::floor and std::ceil followed by cast_to_int (\div rounds down).
RFloor(a) == a[1] \div a[2]
RCeil(a) == -((-a[1]) \div a[2])

RZero == <<0, 1>>
ROne == <<1, 1>>
RHalf == <<1, 2>>

(***************************************************************************)
(* Filter kernels.                                                         *)
(***************************************************************************)
box_filter(t) ==
  IF RLe(<<-1, 2>>, t) /\ RLt(t, RHalf) THEN ROne ELSE RZero

tent_filter(t0) ==
  LET t == IF RLt(t0, RZero) THEN RNeg(t0) ELSE t0
  IN  IF RLt(t, ROne) THEN RSub(ROne, t) ELSE RZero

bell_filter(t0) ==
  LET t == IF RLt(t0, RZero) THEN RNeg(t0) ELSE t0
  IN  IF RLt(t, RHalf) THEN RSub(<<3, 4>>, RMul(t, t))
      ELSE IF RLt(t, <<3, 2>>)
           THEN LET u == RSub(t, <<3, 2>>) IN RMul(RHalf, RMul(u, u))
           ELSE RZero

\* The modelled part of the filter table g_filters.
FilterNames == {"box", "tent", "bell"}

FilterSupport(name) ==
  CASE name = "box" -> RHalf
    [] name = "tent" -> ROne
    [] name = "bell" -> <<3, 2>>

FilterFunc(name, t) ==
  CASE name = "box" -> box_filter(t)
    [] name = "tent" -> tent_filter(t)
    [] name = "bell" -> bell_filter(t)

(***************************************************************************)
(* Boundary handling.                                                      *)
(***************************************************************************)
BoundaryOps == {"BOUNDARY_WRAP", "BOUNDARY_REFLECT", "BOUNDARY_CLAMP"}

\* C's % truncates toward zero; posmod only applies it to x >= 0 and -x > 0.
posmod(x, y) ==
  IF x >= 0 THEN x % y
  ELSE LET m == (-x) % y IN IF m # 0 THEN y - m ELSE m

\* A boundary function whose mirror on overrun is off by one.
reflect_far(j, src_x, boundary_op) ==
  IF j < 0
  THEN IF boundary_op = "BOUNDARY_REFLECT"
       THEN (IF -j >= src_x THEN src_x - 1 ELSE -j)
       ELSE IF boundary_op = "BOUNDARY_WRAP" THEN posmod(j, src_x)
       ELSE 0
  ELSE IF j >= src_x
  THEN IF boundary_op = "BOUNDARY_REFLECT"
       THEN (LET n == (src_x - j) + src_x IN IF n < 0 THEN 0 ELSE n)
       ELSE IF boundary_op = "BOUNDARY_WRAP" THEN posmod(j, src_x)
       ELSE src_x - 1
  ELSE j

reflect(j, src_x, boundary_op) ==
  IF j < 0
  THEN IF boundary_op = "BOUNDARY_REFLECT"
       THEN (IF -j >= src_x THEN src_x - 1 ELSE -j)
       ELSE IF boundary_op = "BOUNDARY_WRAP" THEN posmod(j, src_x)
       ELSE 0
  ELSE IF j >= src_x
  THEN IF boundary_op = "BOUNDARY_REFLECT"
       THEN (LET n == (src_x - j) + (src_x - 1) IN IF n < 0 THEN 0 ELSE n)
       ELSE IF boundary_op = "BOUNDARY_WRAP" THEN posmod(j, src_x)
       ELSE src_x - 1
  ELSE j

\* The narrowing store (unsigned short)(n) into Contrib::pixel.
ToU16(n) == n % 65536

(***************************************************************************)
(* make_clist: the contributor lists of one axis.  The result is a         *)
(* sequence with one entry per destination sample (entry i+1 is the list   *)
(* of destination sample i); the empty sequence stands for the NULL        *)
(* result (a built list is never empty).                                   *)
(***************************************************************************)
NullClist == <<>>

\* A center left in continuous coordinates: the half sample is not taken
\* back off.
ClistCenterContinuous(i, xscale, src_ofs) ==
  RAdd(RDiv(RAdd(RInt(i), RHalf), xscale), src_ofs)

\* center of destination sample i in source coordinates.
ClistCenter(i, xscale, src_ofs) ==
  RAdd(RSub(RDiv(RAdd(RInt(i), RHalf), xscale), RHalf), src_ofs)

\* A half-width that ignores filter_scale.
ClistHalfWidthUnscaled(src_x, dst_x, filter, filter_scale) ==
  LET xscale == Rat(dst_x, src_x)
  IN  IF RLt(xscale, ROne)
      THEN RDiv(FilterSupport(filter), xscale)
      ELSE FilterSupport(filter)

ClistHalfWidth(src_x, dst_x, filter, filter_scale) ==
  LET xscale == Rat(dst_x, src_x)
  IN  IF RLt(xscale, ROne)
      THEN RMul(RDiv(FilterSupport(filter), xscale), filter_scale)
      ELSE RMul(FilterSupport(filter), filter_scale)

\* The raw filter value of source sample j for a destination sample whose
\* center is given.
ClistRaw(j, center, src_x, dst_x, filter, filter_scale) ==
  LET xscale == Rat(dst_x, src_x)
      oo_filter_scale == RDiv(ROne, filter_scale)
      d == RSub(center, RInt(j))
  IN  IF RLt(xscale, ROne)
      THEN FilterFunc(filter, RMul(RMul(d, xscale), oo_filter_scale))
      ELSE FilterFunc(filter, RMul(d, oo_filter_scale))

RECURSIVE RSumFrom(_, _, _)
\* Sum of f[j] for j in lo..hi.  Exact addition is associative, so the sum
\* is split in halves rather than accumulated left to right.
RSumFrom(f, lo, hi) ==
  IF lo > hi THEN RZero
  ELSE IF lo = hi THEN f[lo]
  ELSE LET mid == (lo + hi) \div 2
       IN  RAdd(RSumFrom(f, lo, mid), RSumFrom(f, mid + 1, hi))

\* The second loop over the footprint, for the footprint positions kept
\* (those whose weight is not zero): w[k] is the normalised weight of source
\* sample left + k - 1, and the kept entries are stored in increasing j
\* with their boundary-resolved index.
ClistStore(w, kept, left, src_x, boundary_op) ==
  LET nth == [n \in 1..Cardinality(kept) |->
                CHOOSE k \in kept : Cardinality({x \in kept : x < k}) = n - 1]
  IN  SubSeq([n \in 1..Cardinality(kept) |->
                [pixel |-> ToU16(reflect(left + nth[n] - 1, src_x,
                                         boundary_op)),
                 weight |-> w[nth[n]]]],
             1, Cardinality(kept))

\* if (weight == 0.0) continue;
ClistFill(w, left, src_x, boundary_op) ==
  ClistStore(w, {k \in 1..Len(w) : w[k] # RZero}, left, src_x, boundary_op)

\* total_weight: the sum of the stored weights.
ListWeightSum(list, n) == RSumFrom([k \in 1..n |-> list[k].weight], 1, n)

\* max_k: the first entry whose weight is greater than every earlier one
\* (max_w starts at -1e20, below every weight), that is the first entry of
\* maximal weight; 0 stands for the initial -1 of an empty list.
MaxK(list) ==
  IF Len(list) = 0 THEN 0
  ELSE CHOOSE k \in 1..Len(list) :
         /\ \A m \in 1..Len(list) : RLe(list[m].weight, list[k].weight)
         /\ \A m \in 1..(k - 1) : RLt(list[m].weight, list[k].weight)

\* if (total_weight != 1.0) p[max_k].weight += 1.0 - total_weight
ClistResidual(list, max_k) ==
  LET total_weight == ListWeightSum(list, Len(list))
  IN  IF total_weight # ROne
      THEN [list EXCEPT ![max_k].weight = RAdd(@, RSub(ROne, total_weight))]
      ELSE list

\* The list of destination sample i, or NullClist when it would be empty.
ClistOne(i, src_x, dst_x, boundary_op, filter, filter_scale, src_ofs) ==
  LET xscale == Rat(dst_x, src_x)
      center == ClistCenter(i, xscale, src_ofs)
      half_width == ClistHalfWidth(src_x, dst_x, filter, filter_scale)
      left == RFloor(RSub(center, half_width))
      right == RCeil(RAdd(center, half_width))
      n == right - left + 1
      raw == SubSeq([k \in 1..n |->
                       ClistRaw(left + k - 1, center, src_x, dst_x, filter,
                                filter_scale)], 1, n)
      total == RSumFrom(raw, 1, n)
  IN  IF total = RZero THEN NullClist
      ELSE LET norm == RDiv(ROne, total)
               w == SubSeq([k \in 1..n |-> RMul(raw[k], norm)], 1, n)
               list == ClistFill(w, left, src_x, boundary_op)
               max_k == MaxK(list)
           IN  IF max_k = 0 \/ Len(list) = 0 THEN NullClist
               ELSE ClistResidual(list, max_k)

make_clist(src_x, dst_x, boundary_op, filter, filter_scale, src_ofs) ==
  LET lists == SubSeq([i \in 1..dst_x |->
                         ClistOne(i - 1, src_x, dst_x, boundary_op, filter,
                                  filter_scale, src_ofs)], 1, dst_x)
  IN  IF \E i \in 1..dst_x : lists[i] = NullClist THEN NullClist ELSE lists

(***************************************************************************)
(* Rows of samples and the per-axis kernels.                               *)
(***************************************************************************)
\* total: Psrc[p->pixel] * p->weight summed over the first n entries.
XTotal(list, n, Psrc) ==
  RSumFrom([k \in 1..n |-> RMul(Psrc[list[k].pixel + 1], list[k].weight)],
           1, n)

resample_x(Pclist_x, Psrc) ==
  [i \in 1..Len(Pclist_x) |-> XTotal(Pclist_x[i], Len(Pclist_x[i]), Psrc)]

scale_y_mov(Psrc, weight) == [k \in 1..Len(Psrc) |-> RMul(Psrc[k], weight)]

scale_y_add(Ptmp, Psrc, weight) ==
  [k \in 1..Len(Psrc) |-> RAdd(Ptmp[k], RMul(Psrc[k], weight))]

clamp_sample(f, lo, hi) ==
  IF RLt(f, RInt(lo)) THEN RInt(lo)
  ELSE IF RLt(RInt(hi), f) THEN RInt(hi) ELSE f

clamp(Pdst, lo, hi) == [k \in 1..Len(Pdst) |-> clamp_sample(Pdst[k], lo, hi)]

(***************************************************************************)
(* The engine.                                                             *)
(***************************************************************************)
VARIABLES
  cfg,                 \* the constructor's arguments and the caller's image
  m_status,
  m_built,             \* the constructor reached the cursor initialisation
  m_Pclist_x, m_Pclist_y,
  m_delay_x_resample, m_intermediate_x,
  m_Ptmp_buf,          \* NullBuf or allocated
  m_cur_src_y, m_cur_dst_y,
  m_Psrc_y_count, m_Psrc_y_flag,
  scan_buf_y,          \* slot -> tag (-1 when free)
  scan_buf_l,          \* slot -> NullBuf or the row stored in the buffer
  m_Pdst_buf,          \* the destination row get_line hands out
  call,                \* the last call and what it returned
  crashed,             \* the process was ended by a failed assertion or a trap
  probe                \* arguments and result of a stand-alone kernel call

engine == <<m_status, m_built, m_Pclist_x, m_Pclist_y, m_delay_x_resample,
            m_intermediate_x, m_Ptmp_buf, m_cur_src_y, m_cur_dst_y,
            m_Psrc_y_count, m_Psrc_y_flag, scan_buf_y, scan_buf_l, m_Pdst_buf>>

vars == <<cfg, engine, call, crashed, probe>>

STATUS_OKAY == "STATUS_OKAY"
STATUS_OUT_OF_MEMORY == "STATUS_OUT_OF_MEMORY"
STATUS_BAD_FILTER_NAME == "STATUS_BAD_FILTER_NAME"
STATUS_SCAN_BUFFER_FULL == "STATUS_SCAN_BUFFER_FULL"

\* A buffer pointer that is NULL (an allocated buffer is a non-empty row).
NullBuf == <<>>

Slots == 1..MAX_SCAN_BUF_SIZE

\* Number of entries of the Y lists of destination rows from..dst_y-1 that
\* reference source row s (the loop at the end of the constructor and in
\* restart, with from = 0).
RECURSIVE ListRefs(_, _, _)
ListRefs(list, n, s) ==
  IF n = 0 THEN 0
  ELSE ListRefs(list, n - 1, s) + (IF list[n].pixel = s THEN 1 ELSE 0)

RECURSIVE CountRefs(_, _, _)
CountRefs(Pclist_y, from, s) ==
  IF from >= Len(Pclist_y) THEN 0
  ELSE ListRefs(Pclist_y[from + 1], Len(Pclist_y[from + 1]), s)
       + CountRefs(Pclist_y, from + 1, s)

\* The operation counts x_ops and y_ops come from count_ops, which the
\* constructor calls and resampler.cpp does not define: any count from 0 to
\* MaxOps is allowed.  Only the sign of xy_ops - yx_ops matters, and counts
\* of 0 and 1 already produce every sign that larger counts can.
MaxOps == 2
OpCounts == 0..MaxOps

\* The two estimates pass 2^31 on large images, so a value is held as
\* <<hi, lo>> = hi * IntLimb + lo with 0 <= lo < IntLimb.
IntLimb == 32768

\* a * b for 0 <= a < 2^30 and 0 <= b < 2^16.
WideMul(a, b) ==
  <<(a \div IntLimb) * b + (((a % IntLimb) * b) \div IntLimb),
    ((a % IntLimb) * b) % IntLimb>>

WideAdd(v, w) ==
  <<v[1] + w[1] + ((v[2] + w[2]) \div IntLimb), (v[2] + w[2]) % IntLimb>>

\* v / 3 on a non-negative value.
WideDiv3(v) ==
  <<v[1] \div 3, (((v[1] % 3) * IntLimb) + v[2]) \div 3>>

WideLt(v, w) == v[1] < w[1] \/ (v[1] = w[1] /\ v[2] < w[2])

\* The value is at most INT_MAX = 2^31 - 1.
FitsInt(v) == v[1] < 2 * IntLimb

\* xy_ops = x_ops * src_y + (4 * y_ops * dst_x) / 3
xy_ops(x_ops, y_ops, src_y, dst_x) ==
  WideAdd(WideMul(x_ops, src_y), WideDiv3(WideMul(4 * y_ops, dst_x)))

\* yx_ops = (4 * y_ops * src_x) / 3 + x_ops * dst_y
yx_ops(x_ops, y_ops, src_x, dst_y) ==
  WideAdd(WideDiv3(WideMul(4 * y_ops, src_x)), WideMul(x_ops, dst_y))

\* One of the int operations of the two estimates leaves the range of int.
OpsOverflow(x_ops, y_ops, src_x, src_y, dst_x, dst_y) ==
  \/ ~FitsInt(WideMul(x_ops, src_y))
  \/ ~FitsInt(WideMul(4 * y_ops, dst_x))
  \/ ~FitsInt(xy_ops(x_ops, y_ops, src_y, dst_x))
  \/ ~FitsInt(WideMul(4 * y_ops, src_x))
  \/ ~FitsInt(WideMul(x_ops, dst_y))
  \/ ~FitsInt(yx_ops(x_ops, y_ops, src_x, dst_y))

\* The comparison of the two estimates on their values.
DelayX(x_ops, y_ops, src_x, src_y, dst_x, dst_y) ==
  \/ WideLt(yx_ops(x_ops, y_ops, src_x, dst_y),
            xy_ops(x_ops, y_ops, src_y, dst_x))
  \/ /\ yx_ops(x_ops, y_ops, src_x, dst_y) = xy_ops(x_ops, y_ops, src_y, dst_x)
     /\ src_x < dst_x

\* The values m_delay_x_resample can take.  Signed overflow is undefined:
\* a build wraps, or folds the comparison as if no overflow happened, so
\* either order can come out.
delay_x_resample(x_ops, y_ops, src_x, src_y, dst_x, dst_y) ==
  IF OpsOverflow(x_ops, y_ops, src_x, src_y, dst_x, dst_y) THEN BOOLEAN
  ELSE {DelayX(x_ops, y_ops, src_x, src_y, dst_x, dst_y)}

\* A count table that forgets the references to the last source row.
FreshCountShort(Pclist_y, src_y) ==
  [s \in 0..(src_y - 1) |->
     IF s = src_y - 1 THEN 0 ELSE CountRefs(Pclist_y, 0, s)]

\* The state a successful constructor leaves (also the state restart
\* re-establishes for the cursors, the counts, the flags and the pool).
FreshCount(Pclist_y, src_y) == [s \in 0..(src_y - 1) |-> CountRefs(Pclist_y, 0, s)]
FreshFlag(src_y) == [s \in 0..(src_y - 1) |-> FALSE]
FreshTags == [i \in Slots |-> -1]
FreshBufs == [i \in Slots |-> NullBuf]

ZeroRow(n) == [k \in 1..n |-> RZero]

\* The steps of the constructor that can fail, in the order of the code:
\* the malloc of m_Pdst_buf, the filter lookup, make_clist for X and for Y,
\* the allocation of the counts, the flags and the pool, and the malloc of
\* m_Ptmp_buf.  "none": every step succeeds.
CtorFailures ==
  {"none", "dst_buf", "filter", "clist_x", "clist_y", "arrays", "tmp_buf"}

\* The constructor.  c holds its arguments; fail names the step that fails.
\* A constructor that returns before the cursors are set leaves m_built
\* FALSE: the cursors are then indeterminate and the arrays NULL.
Construct(c, fail) ==
  /\ cfg = c
  /\ m_Pclist_x =
       IF fail \in {"dst_buf", "filter", "clist_x"} THEN NullClist
       ELSE make_clist(c.src_x, c.dst_x, c.boundary_op, c.filter,
                       c.filter_x_scale, RZero)
  /\ m_Pclist_y =
       IF fail \in {"dst_buf", "filter", "clist_x", "clist_y"}
          \/ m_Pclist_x = NullClist
       THEN NullClist
       ELSE make_clist(c.src_y, c.dst_y, c.boundary_op, c.filter,
                       c.filter_y_scale, RZero)
  /\ m_built = (fail \in {"none", "tmp_buf"} /\ m_Pclist_y # NullClist)
  /\ \E x_ops \in OpCounts, y_ops \in OpCounts :
       \E d \in delay_x_resample(x_ops, y_ops, c.src_x, c.src_y, c.dst_x,
                                 c.dst_y) :
          m_delay_x_resample = (m_built /\ d)
  /\ m_intermediate_x = IF ~m_built THEN 0
                        ELSE IF m_delay_x_resample THEN c.src_x ELSE c.dst_x
  /\ m_Ptmp_buf = IF m_delay_x_resample /\ fail # "tmp_buf"
                  THEN ZeroRow(c.src_x) ELSE NullBuf
  /\ m_status = IF fail = "filter" THEN STATUS_BAD_FILTER_NAME
                ELSE IF ~m_built \/ (m_delay_x_resample /\ fail = "tmp_buf")
                     THEN STATUS_OUT_OF_MEMORY
                     ELSE STATUS_OKAY
  /\ m_cur_src_y = 0
  /\ m_cur_dst_y = 0
  /\ m_Psrc_y_count = IF m_built THEN FreshCount(m_Pclist_y, c.src_y) ELSE <<>>
  /\ m_Psrc_y_flag = IF m_built THEN FreshFlag(c.src_y) ELSE <<>>
  /\ scan_buf_y = FreshTags
  /\ scan_buf_l = FreshBufs
  /\ m_Pdst_buf = IF fail = "dst_buf" THEN NullBuf ELSE ZeroRow(c.dst_x)
  /\ call = [op |-> "Resampler", ret |-> "none"]
  /\ crashed = FALSE
  /\ probe = <<>>

\* A slot search that looks at the first slot only.
FindSlotFirst(tags, tag, i) == IF tags[1] = tag THEN 1 ELSE 0

\* for (i = 0; i < MAX_SCAN_BUF_SIZE; i++) if (scan_buf_y[i] == tag) break;
\* the first slot carrying the tag, or 0 when the loop runs to the end.
RECURSIVE FindSlot(_, _, _)
FindSlot(tags, tag, i) ==
  IF i > MAX_SCAN_BUF_SIZE THEN 0
  ELSE IF tags[i] = tag THEN i ELSE FindSlot(tags, tag, i + 1)

\* A stored row that is clamped to [0, 1] before the vertical pass.
StoredRowClamped(Psrc) ==
  IF m_delay_x_resample THEN Psrc
  ELSE clamp(resample_x(m_Pclist_x, Psrc), 0, 1)

\* The row put_line stores in the slot.
StoredRow(Psrc) ==
  IF m_delay_x_resample THEN Psrc ELSE resample_x(m_Pclist_x, Psrc)

\* put_line on a constructed engine.  alloc_ok tells whether the malloc of
\* a cold slot's buffer succeeds.  The result names what the call returns
\* and the fields it leaves.
put_line(Psrc, alloc_ok) ==
  LET y == m_cur_src_y
      i == FindSlot(scan_buf_y, -1, 1)
      same == [ret |-> "false", status |-> m_status, cur_src_y |-> y,
               flag |-> m_Psrc_y_flag, tag |-> scan_buf_y, buf |-> scan_buf_l]
  IN  IF y >= cfg.src_y THEN same
      ELSE IF m_Psrc_y_count[y] = 0
      THEN [same EXCEPT !.ret = "true", !.cur_src_y = y + 1]
      ELSE IF i = 0
      THEN [same EXCEPT !.status = STATUS_SCAN_BUFFER_FULL]
      ELSE IF scan_buf_l[i] = NullBuf /\ ~alloc_ok
      THEN [same EXCEPT !.status = STATUS_OUT_OF_MEMORY,
                        !.flag = [m_Psrc_y_flag EXCEPT ![y] = TRUE],
                        !.tag = [scan_buf_y EXCEPT ![i] = y]]
      ELSE [same EXCEPT !.ret = "true", !.cur_src_y = y + 1,
                        !.flag = [m_Psrc_y_flag EXCEPT ![y] = TRUE],
                        !.tag = [scan_buf_y EXCEPT ![i] = y],
                        !.buf = [scan_buf_l EXCEPT ![i] = StoredRow(Psrc)]]

\* The row the caller passes for source line y.
SourceRow(y) == [k \in 1..cfg.src_x |-> RInt(cfg.img[y + 1][k])]

PutLine ==
  /\ ~crashed
  /\ m_built
  /\ \E alloc_ok \in BOOLEAN :
       LET r == put_line(SourceRow(IF m_cur_src_y < cfg.src_y
                                   THEN m_cur_src_y ELSE 0), alloc_ok)
       IN  /\ m_status' = r.status
           /\ m_cur_src_y' = r.cur_src_y
           /\ m_Psrc_y_flag' = r.flag
           /\ scan_buf_y' = r.tag
           /\ scan_buf_l' = r.buf
           /\ call' = [op |-> "put_line", ret |-> r.ret]
  /\ UNCHANGED <<cfg, m_built, m_Pclist_x, m_Pclist_y, m_delay_x_resample,
                 m_intermediate_x, m_Ptmp_buf, m_cur_dst_y, m_Psrc_y_count,
                 m_Pdst_buf, crashed, probe>>

\* A contributor loop that stops after its first entry.
YLoopFirst(list, k, st, garbage) ==
  IF k > Len(list) THEN st
  ELSE
    LET p == list[k]
        j == FindSlot(st.tag, p.pixel, 1)
        null == (j = 0) \/ (scan_buf_l[IF j = 0 THEN 1 ELSE j] = NullBuf)
        Psrc == IF null THEN [x \in 1..m_intermediate_x |-> RInt(garbage)]
                ELSE scan_buf_l[j]
        last == st.count[p.pixel] - 1 = 0
    IN  [count |-> [st.count EXCEPT ![p.pixel] = @ - 1],
         flag |-> IF last THEN [st.flag EXCEPT ![p.pixel] = FALSE]
                  ELSE st.flag,
         tag |-> IF last /\ j # 0 THEN [st.tag EXCEPT ![j] = -1]
                 ELSE st.tag,
         tmp |-> scale_y_mov(Psrc, p.weight),
         ub |-> st.ub \/ null]

\* The contributor loop of resample_y over entries k..n of the list.  st
\* carries the counts, flags, tags and the row accumulated in Ptmp; st.ub
\* records that a slot was not found or that its buffer was NULL, in which
\* case the samples read are the value garbage.
RECURSIVE YLoop(_, _, _, _)
YLoop(list, k, st, garbage) ==
  IF k > Len(list) THEN st
  ELSE
    LET p == list[k]
        j == FindSlot(st.tag, p.pixel, 1)
        null == (j = 0) \/ (scan_buf_l[IF j = 0 THEN 1 ELSE j] = NullBuf)
        Psrc == IF null THEN [x \in 1..m_intermediate_x |-> RInt(garbage)]
                ELSE scan_buf_l[j]
        tmp == IF k = 1 THEN scale_y_mov(Psrc, p.weight)
               ELSE scale_y_add(st.tmp, Psrc, p.weight)
        last == st.count[p.pixel] - 1 = 0
    IN  YLoop(list, k + 1,
              [count |-> [st.count EXCEPT ![p.pixel] = @ - 1],
               flag |-> IF last THEN [st.flag EXCEPT ![p.pixel] = FALSE]
                        ELSE st.flag,
               tag |-> IF last /\ j # 0 THEN [st.tag EXCEPT ![j] = -1]
                       ELSE st.tag,
               tmp |-> tmp,
               ub |-> st.ub \/ null],
              garbage)

\* resample_y: the destination row and the counts, flags and tags it leaves.
resample_y(garbage) ==
  LET list == m_Pclist_y[m_cur_dst_y + 1]
      st == YLoop(list, 1,
                  [count |-> m_Psrc_y_count, flag |-> m_Psrc_y_flag,
                   tag |-> scan_buf_y, tmp |-> ZeroRow(m_intermediate_x),
                   ub |-> m_delay_x_resample /\ m_Ptmp_buf = NullBuf],
                  garbage)
      x == IF m_delay_x_resample THEN resample_x(m_Pclist_x, st.tmp)
           ELSE st.tmp
      Pdst == IF cfg.lo < cfg.hi THEN clamp(x, cfg.lo, cfg.hi) ELSE x
  IN  [st EXCEPT !.tmp = Pdst]

\* A readiness test that looks at the first contributor only.
AllPresentFirst ==
  m_Psrc_y_flag[m_Pclist_y[m_cur_dst_y + 1][1].pixel]

\* All contributors of destination row m_cur_dst_y carry the present flag.
AllPresent ==
  \A k \in 1..Len(m_Pclist_y[m_cur_dst_y + 1]) :
     m_Psrc_y_flag[m_Pclist_y[m_cur_dst_y + 1][k].pixel]

\* get_line on a constructed engine.  trap tells whether a failed assertion
\* or a read through a NULL buffer ends the process; garbage is the value
\* such a read yields when it does not.
get_line(trap, garbage) ==
  LET same == [ret |-> "null", cur_dst_y |-> m_cur_dst_y,
               count |-> m_Psrc_y_count, flag |-> m_Psrc_y_flag,
               tag |-> scan_buf_y, dst |-> m_Pdst_buf]
  IN  IF m_cur_dst_y = cfg.dst_y THEN same
      ELSE IF ~AllPresent THEN same
      ELSE LET r == resample_y(garbage)
           IN  IF r.ub /\ trap THEN [same EXCEPT !.ret = "crash"]
               ELSE [ret |-> "row", cur_dst_y |-> m_cur_dst_y + 1,
                     count |-> r.count, flag |-> r.flag, tag |-> r.tag,
                     dst |-> r.tmp]

GetLine ==
  /\ ~crashed
  /\ m_built
  /\ \E trap \in BOOLEAN, garbage \in {0, 1} :
       LET r == get_line(trap, garbage)
       IN  /\ m_cur_dst_y' = r.cur_dst_y
           /\ m_Psrc_y_count' = r.count
           /\ m_Psrc_y_flag' = r.flag
           /\ scan_buf_y' = r.tag
           /\ m_Pdst_buf' = r.dst
           /\ crashed' = (r.ret = "crash")
           /\ call' = [op |-> "get_line", ret |-> r.ret]
  /\ UNCHANGED <<cfg, m_status, m_built, m_Pclist_x, m_Pclist_y,
                 m_delay_x_resample, m_intermediate_x, m_Ptmp_buf,
                 m_cur_src_y, scan_buf_l, probe>>

\* put_line and get_line on an engine whose constructor returned early:
\* the cursors were never set and the arrays are NULL, so the call either
\* takes its first early return or dereferences a NULL pointer.
CallUnbuilt ==
  /\ ~crashed
  /\ ~m_built
  /\ \E op \in {"put_line", "get_line"}, trap \in BOOLEAN :
       /\ crashed' = trap
       /\ call' = [op |-> op,
                   ret |-> IF trap THEN "crash"
                           ELSE IF op = "put_line" THEN "false" ELSE "null"]
  /\ UNCHANGED <<cfg, engine, probe>>

\* A restart that keeps the slot buffers allocated.
restart_warm ==
  IF STATUS_OKAY # m_status
  THEN [cur_src_y |-> m_cur_src_y, cur_dst_y |-> m_cur_dst_y,
        count |-> m_Psrc_y_count, flag |-> m_Psrc_y_flag,
        tag |-> scan_buf_y, buf |-> scan_buf_l]
  ELSE [cur_src_y |-> 0, cur_dst_y |-> 0,
        count |-> FreshCount(m_Pclist_y, cfg.src_y),
        flag |-> FreshFlag(cfg.src_y),
        tag |-> FreshTags, buf |-> scan_buf_l]

\* A restart that does not look at the status.
restart_unguarded ==
  [cur_src_y |-> 0, cur_dst_y |-> 0,
   count |-> FreshCount(m_Pclist_y, cfg.src_y),
   flag |-> FreshFlag(cfg.src_y),
   tag |-> FreshTags, buf |-> FreshBufs]

\* restart: nothing when the status is an error, otherwise the cursors, the
\* counts, the flags and the pool as the constructor leaves them.
restart ==
  IF STATUS_OKAY # m_status
  THEN [cur_src_y |-> m_cur_src_y, cur_dst_y |-> m_cur_dst_y,
        count |-> m_Psrc_y_count, flag |-> m_Psrc_y_flag,
        tag |-> scan_buf_y, buf |-> scan_buf_l]
  ELSE [cur_src_y |-> 0, cur_dst_y |-> 0,
        count |-> FreshCount(m_Pclist_y, cfg.src_y),
        flag |-> FreshFlag(cfg.src_y),
        tag |-> FreshTags, buf |-> FreshBufs]

Restart ==
  /\ ~crashed
  /\ LET r == restart
     IN  /\ m_cur_src_y' = r.cur_src_y
         /\ m_cur_dst_y' = r.cur_dst_y
         /\ m_Psrc_y_count' = r.count
         /\ m_Psrc_y_flag' = r.flag
         /\ scan_buf_y' = r.tag
         /\ scan_buf_l' = r.buf
  /\ call' = [op |-> "restart", ret |-> "none"]
  /\ UNCHANGED <<cfg, m_status, m_built, m_Pclist_x, m_Pclist_y,
                 m_delay_x_resample, m_intermediate_x, m_Ptmp_buf,
                 m_Pdst_buf, crashed, probe>>

(***************************************************************************)
(* The engines the model constructs.                                       *)
(***************************************************************************)
\* Tall single-column images: every height, filter and boundary op.
TallConfigs ==
  { [src_x |-> 1, src_y |-> sy, dst_x |-> 1, dst_y |-> dy,
     boundary_op |-> op, filter |-> f,
     filter_x_scale |-> ROne, filter_y_scale |-> ROne,
     lo |-> 0, hi |-> 0,
     img |-> [y \in 1..sy |-> <<y>>]] :
    sy \in 1..MaxSrcY, dy \in 1..MaxDstY, op \in BoundaryOps,
    f \in FilterNames }

Init == \E c \in TallConfigs, fail \in CtorFailures : Construct(c, fail)

Next == PutLine \/ GetLine \/ CallUnbuilt \/ Restart

Spec == Init /\ [][Next]_vars

\* Small two-dimensional images with sample data: an image holds the value
\* PixValue at one position and 0 elsewhere; the clamp range is disabled
\* (lo = hi) or [0, 1].  Source rows are up to MaxPix samples wide.
PixValue == 2
MaxPix == 2

PixImages(sx, sy) ==
  { [y \in 1..sy |-> [x \in 1..sx |->
        IF x = px /\ y = py THEN PixValue ELSE 0]] :
    px \in 1..sx, py \in 1..sy }

PixConfigs ==
  { [src_x |-> d[1], src_y |-> d[2], dst_x |-> d[3], dst_y |-> d[4],
     boundary_op |-> op, filter |-> f,
     filter_x_scale |-> ROne, filter_y_scale |-> ROne,
     lo |-> 0, hi |-> hi,
     img |-> im] :
    d \in { q \in (1..MaxPix) \X (1..2) \X (1..2) \X (1..2) :
              q[1] + q[3] > 2 /\ q[2] + q[4] > 2 },
    op \in BoundaryOps, f \in {"tent", "bell"}, hi \in {0, 1},
    im \in UNION { PixImages(sx, sy) : sx \in 1..MaxPix, sy \in 1..2 } }

InitPix ==
  \E c \in PixConfigs, fail \in CtorFailures :
     /\ Len(c.img) = c.src_y
     /\ Len(c.img[1]) = c.src_x
     /\ Construct(c, fail)

SpecPix == InitPix /\ [][Next]_vars

(***************************************************************************)
(* The contributor-list builder and the horizontal kernel on their own:    *)
(* probe holds the arguments of one call and, once made, its result.  The  *)
(* engine is not constructed.                                              *)
(***************************************************************************)
MaxLen == 5
MaxOver == 6
FilterScales == {ROne, RInt(2)}

\* The impulse row: 1 at index k (0-based), 0 elsewhere.
Impulse(n, k) == [x \in 1..n |-> IF x = k + 1 THEN ROne ELSE RZero]

ReflectProbes ==
  { [kind |-> "reflect", stage |-> "input", src_x |-> sx, boundary_op |-> op,
     j |-> j, n |-> -1] :
    sx \in 1..MaxLen, op \in BoundaryOps, j \in (-MaxOver)..(MaxLen + MaxOver) }

\* Every pair of lengths with filter_scale 1; filter_scale 2 at equal
\* lengths.
ClistProbes ==
  { p \in
      { [kind |-> "clist", stage |-> "input", src_x |-> d[1], dst_x |-> d[2],
         boundary_op |-> op, filter |-> f, filter_scale |-> fs, k |-> d[3],
         clist |-> NullClist, row |-> <<>>] :
        d \in { q \in (1..MaxLen) \X (1..MaxLen) \X (0..(MaxLen - 1)) :
                  q[3] < q[1] },
        op \in BoundaryOps, f \in FilterNames, fs \in FilterScales } :
    p.filter_scale = ROne \/ p.src_x = p.dst_x }

InitClist ==
  /\ probe \in ReflectProbes \cup ClistProbes
  /\ cfg = <<>>
  /\ m_status = STATUS_OKAY
  /\ m_built = FALSE
  /\ m_Pclist_x = NullClist
  /\ m_Pclist_y = NullClist
  /\ m_delay_x_resample = FALSE
  /\ m_intermediate_x = 0
  /\ m_Ptmp_buf = NullBuf
  /\ m_cur_src_y = 0
  /\ m_cur_dst_y = 0
  /\ m_Psrc_y_count = <<>>
  /\ m_Psrc_y_flag = <<>>
  /\ scan_buf_y = FreshTags
  /\ scan_buf_l = FreshBufs
  /\ m_Pdst_buf = NullBuf
  /\ call = [op |-> "none", ret |-> "none"]
  /\ crashed = FALSE

\* n = reflect(j, src_x, boundary_op)
Reflect ==
  /\ probe.kind = "reflect" /\ probe.stage = "input"
  /\ probe' = [probe EXCEPT !.stage = "done",
                            !.n = reflect(probe.j, probe.src_x,
                                          probe.boundary_op)]
  /\ UNCHANGED <<cfg, engine, call, crashed>>

\* clist = make_clist(src_x, dst_x, boundary_op, filter, filter_scale, 0)
MakeClist ==
  /\ probe.kind = "clist" /\ probe.stage = "input"
  /\ probe' = [probe EXCEPT !.stage = "clist",
                            !.clist = make_clist(probe.src_x, probe.dst_x,
                                                 probe.boundary_op,
                                                 probe.filter,
                                                 probe.filter_scale, RZero)]
  /\ UNCHANGED <<cfg, engine, call, crashed>>

\* resample_x of the impulse row through the list just built.
ResampleX ==
  /\ probe.kind = "clist" /\ probe.stage = "clist"
  /\ probe.clist # NullClist
  /\ probe' = [probe EXCEPT !.stage = "row",
                            !.row = resample_x(probe.clist,
                                               Impulse(probe.src_x, probe.k))]
  /\ UNCHANGED <<cfg, engine, call, crashed>>

NextClist == Reflect \/ MakeClist \/ ResampleX

SpecClist == InitClist /\ [][NextClist]_vars

(***************************************************************************)
(* Resample_Real as a binary floating point type.  A value is <<m, e>>,    *)
(* standing for m * 2^e, with 2^(FlBits-1) <= |m| < 2^FlBits, or <<0, 0>>  *)
(* for zero.  Every operation rounds its exact result to the nearest       *)
(* value, ties to the even mantissa.  The exponent is unbounded: the       *)
(* values met here are far from overflow and underflow.                    *)
(***************************************************************************)
\* Significand width of Resample_Real (float: 24).
FlBits == 24
\* Extra low-order bits an exact result keeps before it is rounded.
FlGuard == 6

FlZero == <<0, 0>>
FlOne == <<2^(FlBits - 1), 1 - FlBits>>
FlHalf == <<2^(FlBits - 1), -FlBits>>
FlThreeQuarters == <<3 * 2^(FlBits - 2), -FlBits>>
FlThreeHalves == <<3 * 2^(FlBits - 2), 1 - FlBits>>

FlNeg(a) == <<-a[1], a[2]>>
FlAbs(a) == <<Abs(a[1]), a[2]>>
FlSign(negative, a) == IF negative THEN FlNeg(a) ELSE a

\* Number of bits of M (0 < M < 2^31).
FlBitLen(M) == CHOOSE L \in 1..31 : 2^(L - 1) <= M /\ (L = 31 \/ M < 2^L)

\* A mantissa that rounding carried up to 2^FlBits moves to the next
\* exponent.
FlCarry(q, e) ==
  IF q = 2^FlBits THEN <<2^(FlBits - 1), e + 1>> ELSE <<q, e>>

\* Round to nearest, ties to even: q is the kept part, r the dropped bits,
\* half the weight of the first dropped bit, sticky a non-zero rest below r.
FlRoundUp(q, r, half, sticky, e) ==
  FlCarry(IF r > half \/ (r = half /\ (sticky \/ q % 2 = 1))
          THEN q + 1 ELSE q, e)

\* M has L bits.
FlRoundAt(M, sticky, e, L) ==
  IF L <= FlBits
  THEN <<M * 2^(FlBits - L), e - (FlBits - L)>>
  ELSE FlRoundUp(M \div 2^(L - FlBits), M % 2^(L - FlBits),
                 2^(L - FlBits - 1), sticky, e + (L - FlBits))

\* The value nearest to (M + f) * 2^e, where M >= 0 and 0 < f < 1 when
\* sticky, f = 0 otherwise; with sticky, M is wider than FlBits.
FlRoundMag(M, sticky, e) ==
  IF M = 0 THEN FlZero ELSE FlRoundAt(M, sticky, e, FlBitLen(M))

\* The same for a signed S: the value is (S + f) * 2^e.
FlRound(S, sticky, e) ==
  FlSign(S < 0,
         FlRoundMag(IF S >= 0 THEN S ELSE IF sticky THEN -S - 1 ELSE -S,
                    sticky, e))

\* (Resample_Real)n
FlFromInt(n) == FlRound(n, FALSE, 0)

\* hi + lo, where the exponent of hi is d above that of lo: the exact sum
\* when d is small, else lo shifted down to FlGuard bits below hi.
FlAddAligned(hi, lo, d) ==
  IF d > FlBits + FlGuard THEN hi
  ELSE IF d <= FlGuard THEN FlRound(hi[1] * 2^d + lo[1], FALSE, lo[2])
  ELSE FlRound(hi[1] * 2^FlGuard + (lo[1] \div 2^(d - FlGuard)),
               lo[1] % 2^(d - FlGuard) # 0, hi[2] - FlGuard)

\* a + b
FlAdd(a, b) ==
  IF a[1] = 0 THEN b
  ELSE IF b[1] = 0 THEN a
  ELSE FlAddAligned(IF a[2] >= b[2] THEN a ELSE b,
                    IF a[2] >= b[2] THEN b ELSE a,
                    Abs(a[2] - b[2]))

\* a - b
FlSub(a, b) == FlAdd(a, FlNeg(b))

\* The 2*FlBits-bit product high * 2^FlBits + low, rounded.
FlMulWide(high, low, e) ==
  FlRoundMag(high * 2^FlGuard + (low \div 2^(FlBits - FlGuard)),
             low % 2^(FlBits - FlGuard) # 0, e + FlBits - FlGuard)

\* The product hh * h^2 + mid * h + ll of the mantissas (h^2 = 2^FlBits).
FlMulParts(hh, mid, ll, h, e) ==
  FlMulWide(hh + (mid \div h) + ((ll + (mid % h) * h) \div 2^FlBits),
            (ll + (mid % h) * h) % 2^FlBits, e)

\* x * y from the half-width limbs of x and y.
FlMulMag(x, y, h, e) ==
  FlMulParts((x \div h) * (y \div h),
             (x \div h) * (y % h) + (x % h) * (y \div h),
             (x % h) * (y % h), h, e)

\* a * b
FlMul(a, b) ==
  IF a[1] = 0 \/ b[1] = 0 THEN FlZero
  ELSE FlSign((a[1] < 0) # (b[1] < 0),
              FlMulMag(Abs(a[1]), Abs(b[1]), 2^(FlBits \div 2), a[2] + b[2]))

RECURSIVE FlDivDigits(_, _, _, _)
\* Long division in base 2^FlGuard: n more digits of the quotient q, with
\* remainder r, of a division by y.
FlDivDigits(q, r, y, n) ==
  IF n = 0 THEN <<q, r>>
  ELSE FlDivDigits(q * 2^FlGuard + ((r * 2^FlGuard) \div y),
                   (r * 2^FlGuard) % y, y, n - 1)

FlDivRound(qr, e) == FlRoundMag(qr[1], qr[2] # 0, e)

\* a / b (b is not zero).
FlDiv(a, b) ==
  IF a[1] = 0 THEN FlZero
  ELSE FlSign((a[1] < 0) # (b[1] < 0),
              FlDivRound(FlDivDigits(Abs(a[1]) \div Abs(b[1]),
                                     Abs(a[1]) % Abs(b[1]), Abs(b[1]), 5),
                         a[2] - b[2] - 5 * FlGuard))

\* a < b
FlLt(a, b) ==
  IF a[1] < 0 /\ b[1] >= 0 THEN TRUE
  ELSE IF a[1] >= 0 /\ b[1] <= 0 THEN FALSE
  ELSE IF a[1] = 0 THEN TRUE
  ELSE IF a[1] > 0 THEN a[2] < b[2] \/ (a[2] = b[2] /\ a[1] < b[1])
  ELSE a[2] > b[2] \/ (a[2] = b[2] /\ a[1] < b[1])

\* cast_to_int(std::floor(a)) and cast_to_int(std::ceil(a)).
FlFloor(a) ==
  IF a[2] >= 0 THEN a[1] * 2^a[2]
  ELSE IF -a[2] > 30 THEN (IF a[1] < 0 THEN -1 ELSE 0)
  ELSE a[1] \div 2^(-a[2])

FlCeil(a) == -FlFloor(FlNeg(a))

FlSquare(t) == FlMul(t, t)

Fl_box_filter(t) ==
  IF ~FlLt(t, FlNeg(FlHalf)) /\ FlLt(t, FlHalf) THEN FlOne ELSE FlZero

\* t is the argument after if (t < 0) t = -t.
FlTent(t) == IF FlLt(t, FlOne) THEN FlSub(FlOne, t) ELSE FlZero

Fl_tent_filter(t) == FlTent(FlAbs(t))

FlBell(t) ==
  IF FlLt(t, FlHalf) THEN FlSub(FlThreeQuarters, FlSquare(t))
  ELSE IF FlLt(t, FlThreeHalves)
       THEN FlMul(FlHalf, FlSquare(FlSub(t, FlThreeHalves)))
       ELSE FlZero

Fl_bell_filter(t) == FlBell(FlAbs(t))

FlFilterSupport(name) ==
  CASE name = "box" -> FlHalf
    [] name = "tent" -> FlOne
    [] name = "bell" -> FlThreeHalves

FlFilterFunc(name, t) ==
  CASE name = "box" -> Fl_box_filter(t)
    [] name = "tent" -> Fl_tent_filter(t)
    [] name = "bell" -> Fl_bell_filter(t)

RECURSIVE FlSumTo(_, _)
\* total_weight after f[1], ..., f[n] have been added to 0 in this order.
FlSumTo(f, n) == IF n = 0 THEN FlZero ELSE FlAdd(FlSumTo(f, n - 1), f[n])

\* The raw filter value of source sample j.
FlClistRaw(j, center, xscale, filter, oo_filter_scale) ==
  FlFilterFunc(filter,
               FlMul(IF FlLt(xscale, FlOne)
                     THEN FlMul(FlSub(center, FlFromInt(j)), xscale)
                     ELSE FlSub(center, FlFromInt(j)),
                     oo_filter_scale))

\* max_k: the first entry whose weight is greater than every earlier one.
FlMaxK(list) ==
  IF Len(list) = 0 THEN 0
  ELSE CHOOSE k \in 1..Len(list) :
         /\ \A m \in 1..Len(list) : ~FlLt(list[k].weight, list[m].weight)
         /\ \A m \in 1..(k - 1) : FlLt(list[m].weight, list[k].weight)

\* The sum of the stored weights, added in list order.
FlListWeightSum(list) ==
  FlSumTo([k \in 1..Len(list) |-> list[k].weight], Len(list))

\* if (total_weight != 1.0) p[max_k].weight += 1.0 - total_weight
FlClistResidual(list, max_k) ==
  LET total_weight == FlListWeightSum(list)
  IN  IF total_weight # FlOne
      THEN [list EXCEPT ![max_k].weight = FlAdd(@, FlSub(FlOne, total_weight))]
      ELSE list

\* The list of destination sample i as the floating point build computes
\* it, or NullClist.
FlClistOne(i, src_x, dst_x, boundary_op, filter, filter_scale, src_ofs) ==
  LET xscale == FlDiv(FlFromInt(dst_x), FlFromInt(src_x))
      oo_filter_scale == FlDiv(FlOne, filter_scale)
      half_width ==
        IF FlLt(xscale, FlOne)
        THEN FlMul(FlDiv(FlFilterSupport(filter), xscale), filter_scale)
        ELSE FlMul(FlFilterSupport(filter), filter_scale)
      center == FlAdd(FlSub(FlDiv(FlAdd(FlFromInt(i), FlHalf), xscale),
                            FlHalf), src_ofs)
      left == FlFloor(FlSub(center, half_width))
      right == FlCeil(FlAdd(center, half_width))
      n == right - left + 1
      raw == SubSeq([k \in 1..n |->
                       FlClistRaw(left + k - 1, center, xscale, filter,
                                  oo_filter_scale)], 1, n)
      total == FlSumTo(raw, n)
  IN  IF total = FlZero THEN NullClist
      ELSE LET norm == FlDiv(FlOne, total)
               w == SubSeq([k \in 1..n |-> FlMul(raw[k], norm)], 1, n)
               list == ClistStore(w, {k \in 1..n : w[k] # FlZero}, left,
                                  src_x, boundary_op)
               max_k == FlMaxK(list)
           IN  IF max_k = 0 \/ Len(list) = 0 THEN NullClist
               ELSE FlClistResidual(list, max_k)

Fl_make_clist(src_x, dst_x, boundary_op, filter, filter_scale, src_ofs) ==
  LET lists == SubSeq([i \in 1..dst_x |->
                         FlClistOne(i - 1, src_x, dst_x, boundary_op, filter,
                                    filter_scale, src_ofs)], 1, dst_x)
  IN  IF \E i \in 1..dst_x : lists[i] = NullClist THEN NullClist ELSE lists

\* Largest length of the floating point probes.
MaxFlLen == 3

FloatProbes ==
  { [kind |-> "float", stage |-> "input", src_x |-> sx, dst_x |-> dx,
     boundary_op |-> op, filter |-> f, clist |-> NullClist] :
    sx \in 1..MaxFlLen, dx \in 1..MaxFlLen, op \in BoundaryOps,
    f \in FilterNames }

InitFloat ==
  /\ probe \in FloatProbes
  /\ cfg = <<>>
  /\ m_status = STATUS_OKAY
  /\ m_built = FALSE
  /\ m_Pclist_x = NullClist
  /\ m_Pclist_y = NullClist
  /\ m_delay_x_resample = FALSE
  /\ m_intermediate_x = 0
  /\ m_Ptmp_buf = NullBuf
  /\ m_cur_src_y = 0
  /\ m_cur_dst_y = 0
  /\ m_Psrc_y_count = <<>>
  /\ m_Psrc_y_flag = <<>>
  /\ scan_buf_y = FreshTags
  /\ scan_buf_l = FreshBufs
  /\ m_Pdst_buf = NullBuf
  /\ call = [op |-> "none", ret |-> "none"]
  /\ crashed = FALSE

\* clist = make_clist(src_x, dst_x, boundary_op, filter, 1.0f, 0.0f)
MakeClistFloat ==
  /\ probe.kind = "float" /\ probe.stage = "input"
  /\ probe' = [probe EXCEPT !.stage = "clist",
                            !.clist = Fl_make_clist(probe.src_x, probe.dst_x,
                                                    probe.boundary_op,
                                                    probe.filter, FlOne,
                                                    FlZero)]
  /\ UNCHANGED <<cfg, engine, call, crashed>>

NextFloat == MakeClistFloat

SpecFloat == InitFloat /\ [][NextFloat]_vars

(***************************************************************************)
(* The destination rows as functions of the image, in the two axis orders. *)
(***************************************************************************)
RECURSIVE YAccum(_, _, _)
\* The vertical accumulation of the rows src[pixel] over entries 1..n.
YAccum(list, n, src) ==
  IF n = 1 THEN scale_y_mov(src[list[1].pixel + 1], list[1].weight)
  ELSE scale_y_add(YAccum(list, n - 1, src), src[list[n].pixel + 1],
                   list[n].weight)

ClampRow(row) == IF cfg.lo < cfg.hi THEN clamp(row, cfg.lo, cfg.hi) ELSE row

\* X first: every source row is resampled horizontally, then destination
\* row d accumulates the resampled rows.
RowXY(d) ==
  LET list == m_Pclist_y[d + 1]
      src == [y \in 1..cfg.src_y |-> resample_x(m_Pclist_x, SourceRow(y - 1))]
  IN  ClampRow(YAccum(list, Len(list), src))

\* Y first: destination row d accumulates the source rows, then the result
\* is resampled horizontally.
RowYX(d) ==
  LET list == m_Pclist_y[d + 1]
      src == [y \in 1..cfg.src_y |-> SourceRow(y - 1)]
  IN  ClampRow(resample_x(m_Pclist_x, YAccum(list, Len(list), src)))

(***************************************************************************)
(* Vocabulary of the properties.                                           *)
(***************************************************************************)
\* Every contributor of the pending destination row carries its present
\* flag and has a slot tagged with its source index.
ContributorsInPool ==
  LET list == m_Pclist_y[m_cur_dst_y + 1]
  IN  \A k \in 1..Len(list) :
         /\ m_Psrc_y_flag[list[k].pixel]
         /\ \E i \in Slots : scan_buf_y[i] = list[k].pixel

\* get_line has nothing to give: end of stream, or a contributor is missing.
Drained == m_cur_dst_y = cfg.dst_y \/ ~ContributorsInPool

\* The next source row is wanted and every slot is taken.
PoolFull ==
  /\ m_cur_src_y < cfg.src_y
  /\ m_Psrc_y_count[m_cur_src_y] # 0
  /\ \A i \in Slots : scan_buf_y[i] # -1

\* The state restart is specified to leave.
FreshState ==
  /\ m_cur_src_y = 0
  /\ m_cur_dst_y = 0
  /\ m_Psrc_y_count =
       [s \in 0..(cfg.src_y - 1) |-> CountRefs(m_Pclist_y, 0, s)]
  /\ \A s \in 0..(cfg.src_y - 1) : ~m_Psrc_y_flag[s]
  /\ \A i \in Slots : scan_buf_y[i] = -1 /\ scan_buf_l[i] = NullBuf

(***************************************************************************)
(* C1: round trip.                                                         *)
(***************************************************************************)
\* C1 (as stated): for every src_y and every filter, once the caller can
\* feed no further row (all src_y rows are in, or put_line finds the pool
\* full) and get_line has been drained, dst_y rows have been delivered.
\* Allocation failures are left out of the statement.
C1_RoundTripAnySize ==
  (m_built /\ m_status # STATUS_OUT_OF_MEMORY /\ Drained
     /\ (m_cur_src_y = cfg.src_y \/ PoolFull))
  => m_cur_dst_y = cfg.dst_y

\* C1 (amended): the destination cursor never passes dst_y, and when all
\* src_y rows have been accepted without any error being raised and
\* get_line has been drained, exactly dst_y rows have been delivered.
C1_RoundTrip ==
  m_built =>
    /\ m_cur_dst_y <= cfg.dst_y
    /\ (m_status = STATUS_OKAY /\ m_cur_src_y = cfg.src_y /\ Drained)
         => m_cur_dst_y = cfg.dst_y

\* A run of an image taller than the pool that delivered its last row.
C1_Witness ==
  /\ m_built /\ m_status = STATUS_OKAY
  /\ cfg.src_y > MAX_SCAN_BUF_SIZE /\ cfg.dst_y > 1
  /\ m_cur_src_y = cfg.src_y /\ m_cur_dst_y = cfg.dst_y
  /\ call = [op |-> "get_line", ret |-> "row"]

(***************************************************************************)
(* C2: reference-count conservation.                                       *)
(***************************************************************************)
\* C2: at end of stream (cur_dst_y = dst_y) every reference count is 0,
\* every present flag is false and every slot tag is -1.
C2_Conservation ==
  (m_built /\ m_cur_dst_y = cfg.dst_y) =>
    /\ \A s \in 0..(cfg.src_y - 1) :
          m_Psrc_y_count[s] = 0 /\ ~m_Psrc_y_flag[s]
    /\ \A i \in Slots : scan_buf_y[i] = -1

(***************************************************************************)
(* C3: sticky errors.                                                      *)
(***************************************************************************)
\* C3: once the status is an error it stays an error, and from then on no
\* put_line returns true and no get_line returns a row.
C3_Sticky ==
  [][ m_status # STATUS_OKAY =>
        /\ m_status' # STATUS_OKAY
        /\ call'.op = "put_line" => call'.ret # "true"
        /\ call'.op = "get_line" => call'.ret # "row" ]_vars

(***************************************************************************)
(* C4: get_line readiness and order.                                       *)
(***************************************************************************)
\* C4: a get_line call that returns a row finds cur_dst_y < dst_y and every
\* contributor of the pending row present, and advances cur_dst_y by one; a
\* call made at end of stream or with a contributor missing returns null and
\* leaves the cursors, counts, flags and tags alone; cur_dst_y moves only by
\* such a +1 step or back to 0 by restart.
C4_GetLineReady ==
  [][ /\ (m_built /\ call'.op = "get_line" /\ call'.ret = "row") =>
           /\ m_cur_dst_y < cfg.dst_y
           /\ ContributorsInPool
           /\ m_cur_dst_y' = m_cur_dst_y + 1
      /\ (m_built /\ call'.op = "get_line" /\ Drained) =>
           /\ call'.ret = "null"
           /\ UNCHANGED <<m_cur_src_y, m_cur_dst_y, m_Psrc_y_count,
                          m_Psrc_y_flag, scan_buf_y>>
      /\ m_cur_dst_y' # m_cur_dst_y =>
           \/ call'.op = "get_line" /\ call'.ret = "row"
              /\ m_cur_dst_y' = m_cur_dst_y + 1
           \/ call'.op = "restart" /\ m_cur_dst_y' = 0 ]_vars

\* get_line has just answered null for a row whose contributors are only
\* partly in the pool, after having delivered an earlier row.
C4_Witness ==
  /\ m_built
  /\ call = [op |-> "get_line", ret |-> "null"]
  /\ 0 < m_cur_dst_y /\ m_cur_dst_y < cfg.dst_y
  /\ ~ContributorsInPool
  /\ \E k \in 1..Len(m_Pclist_y[m_cur_dst_y + 1]) :
        m_Psrc_y_flag[m_Pclist_y[m_cur_dst_y + 1][k].pixel]

(***************************************************************************)
(* C5: restart.                                                            *)
(***************************************************************************)
\* C5 (as stated): restart, called in any reachable state of a constructed
\* engine, leaves the fresh state of a successful construction.
C5_RestartAnyState ==
  [][ (m_built /\ call'.op = "restart") => FreshState' ]_vars

\* C5 (amended): restart called while the status is OK leaves the fresh
\* state and keeps the contributor lists and the axis order; restart called
\* while the status is an error changes nothing; and as long as the status
\* is OK the row delivered for destination index d is the same in every run.
C5_Restart ==
  [][ /\ (call'.op = "restart" /\ m_status = STATUS_OKAY) =>
           /\ FreshState'
           /\ UNCHANGED <<m_Pclist_x, m_Pclist_y, m_delay_x_resample,
                          m_status>>
      /\ (call'.op = "restart" /\ m_status # STATUS_OKAY) =>
           UNCHANGED engine
      /\ (call'.op = "get_line" /\ call'.ret = "row"
            /\ m_status = STATUS_OKAY) =>
           m_Pdst_buf' = RowXY(m_cur_dst_y) ]_vars

\* restart has just reset an engine that had already delivered a row with a
\* non-zero sample.
C5_Witness ==
  /\ m_built /\ m_status = STATUS_OKAY
  /\ call.op = "restart"
  /\ FreshState
  /\ \E k \in 1..cfg.dst_x : m_Pdst_buf[k] # RZero

(***************************************************************************)
(* C10: axis independence.                                                 *)
(***************************************************************************)
\* C10: the row an engine delivers, whichever axis order it runs in, is
\* both the X-first and the Y-first function of the source rows, clamp
\* included, and the two functions agree on every destination row.
C10_AxisIndependence ==
  /\ (m_built /\ m_status = STATUS_OKAY
        /\ call = [op |-> "get_line", ret |-> "row"]) =>
       /\ m_Pdst_buf = RowXY(m_cur_dst_y - 1)
       /\ m_Pdst_buf = RowYX(m_cur_dst_y - 1)
  /\ (m_built /\ m_status = STATUS_OKAY) =>
       \A d \in 0..(cfg.dst_y - 1) : RowXY(d) = RowYX(d)

\* An X-first engine has delivered a row that the clamp cut, on an image
\* resampled along both axes.
C10_Witness ==
  /\ m_built /\ m_status = STATUS_OKAY
  /\ ~m_delay_x_resample
  /\ cfg.src_x # cfg.dst_x /\ cfg.src_y # cfg.dst_y
  /\ cfg.lo < cfg.hi
  /\ call = [op |-> "get_line", ret |-> "row"]
  /\ \E k \in 1..cfg.dst_x : m_Pdst_buf[k] = RInt(cfg.hi)

(***************************************************************************)
(* C6: stored source indices.                                              *)
(***************************************************************************)
Min(a, b) == IF a < b THEN a ELSE b
Max(a, b) == IF a > b THEN a ELSE b

\* C6: every pixel stored in a list built by make_clist lies in
\* [0, src_len); and for every footprint index j the boundary function
\* gives: clamp 0 below and src_len-1 above; wrap j mod src_len; reflect
\* min(-j, src_len-1) below and max(0, (src_len-j)+(src_len-1)) above; j
\* itself inside the range.
C6_SourceIndex ==
  /\ (probe # <<>> /\ probe.kind = "clist" /\ probe.stage # "input"
        /\ probe.clist # NullClist) =>
       \A i \in 1..Len(probe.clist) : \A k \in 1..Len(probe.clist[i]) :
          probe.clist[i][k].pixel \in 0..(probe.src_x - 1)
  /\ (probe # <<>> /\ probe.kind = "reflect" /\ probe.stage = "done") =>
       LET j == probe.j
           len == probe.src_x
           op == probe.boundary_op
       IN  /\ probe.n \in 0..(len - 1)
           /\ (0 <= j /\ j < len) => probe.n = j
           /\ (op = "BOUNDARY_CLAMP" /\ j < 0) => probe.n = 0
           /\ (op = "BOUNDARY_CLAMP" /\ j >= len) => probe.n = len - 1
           /\ op = "BOUNDARY_WRAP" => probe.n = j % len
           /\ (op = "BOUNDARY_REFLECT" /\ j < 0) => probe.n = Min(-j, len - 1)
           /\ (op = "BOUNDARY_REFLECT" /\ j >= len) =>
                probe.n = Max(0, (len - j) + (len - 1))

\* make_clist has built, with reflect, a list longer than the source row:
\* its footprint left the range [0, src_len) and came back mirrored.
C6_Witness ==
  /\ probe # <<>> /\ probe.kind = "clist" /\ probe.stage = "clist"
  /\ probe.boundary_op = "BOUNDARY_REFLECT"
  /\ probe.clist # NullClist
  /\ probe.src_x > 1
  /\ \E i \in 1..Len(probe.clist) : Len(probe.clist[i]) > probe.src_x

(***************************************************************************)
(* C7: unit sum of the weights.                                            *)
(***************************************************************************)
\* C7: in every list make_clist builds, downsampling or upsampling, the
\* stored weights, added in list order in the arithmetic of Resample_Real,
\* sum to 1.0 exactly.
C7_UnitSum ==
  (probe # <<>> /\ probe.kind = "float" /\ probe.stage = "clist"
     /\ probe.clist # NullClist) =>
    \A i \in 1..Len(probe.clist) : FlListWeightSum(probe.clist[i]) = FlOne

(***************************************************************************)
(* C8: impulse at unity scale.                                             *)
(***************************************************************************)
RECURSIVE RowSum(_, _)
RowSum(row, n) == IF n = 0 THEN RZero ELSE RAdd(RowSum(row, n - 1), row[n])

\* The probe is a finished unity-scale resample of an impulse.
UnityProbe ==
  /\ probe # <<>> /\ probe.kind = "clist" /\ probe.stage = "row"
  /\ probe.src_x = probe.dst_x /\ probe.filter_scale = ROne

\* The row has a maximum at index k and sums to 1.
ImpulseKept ==
  /\ \A x \in 1..Len(probe.row) : RLe(probe.row[x], probe.row[probe.k + 1])
  /\ RowSum(probe.row, Len(probe.row)) = ROne

TentProbe ==
  /\ probe # <<>> /\ probe.kind = "clist" /\ probe.stage = "row"
  /\ probe.src_x = 4 /\ probe.dst_x = 4 /\ probe.filter = "tent"
  /\ probe.filter_scale = RInt(2) /\ probe.k = 0

\* C9 (as stated): the half-width is 2 and the row is
\* [0.4375, 0.3125, 0.1875, 0.0625].
C9_TentRowStated ==
  TentProbe =>
    /\ ClistHalfWidth(4, 4, "tent", RInt(2)) = RInt(2)
    /\ probe.row = <<Rat(7, 16), Rat(5, 16), Rat(3, 16), Rat(1, 16)>>

\* C9 (amended): the half-width is 2, every destination sample weighs its
\* footprint i-1, i, i+1 by 0.25, 0.5, 0.25, and the row is
\* [0.75, 0.25, 0, 0] with clamp, [0.5, 0.25, 0, 0] with reflect and
\* [0.5, 0.25, 0, 0.25] with wrap.
C9_TentRow ==
  TentProbe =>
    /\ ClistHalfWidth(4, 4, "tent", RInt(2)) = RInt(2)
    /\ \A i \in 1..4 :
          /\ Len(probe.clist[i]) = 3
          /\ probe.clist[i][1].weight = Rat(1, 4)
          /\ probe.clist[i][2].weight = Rat(1, 2)
          /\ probe.clist[i][3].weight = Rat(1, 4)
    /\ probe.boundary_op = "BOUNDARY_CLAMP" =>
         probe.row = <<Rat(3, 4), Rat(1, 4), RZero, RZero>>
    /\ probe.boundary_op = "BOUNDARY_REFLECT" =>
         probe.row = <<Rat(1, 2), Rat(1, 4), RZero, RZero>>
    /\ probe.boundary_op = "BOUNDARY_WRAP" =>
         probe.row = <<Rat(1, 2), Rat(1, 4), RZero, Rat(1, 4)>>

\* The 4-to-4 tent resample with filter_scale 2 has been made with wrap.
C9_Witness == TentProbe /\ probe.boundary_op = "BOUNDARY_WRAP"

(***************************************************************************)
(* C11: present flags, slot tags and slot buffers.                         *)
(***************************************************************************)
\* C11: in every state of a constructed engine, a source row carries the
\* present flag iff exactly one slot carries its tag, no two slots carry
\* the same tag other than -1, and every tagged slot has an allocated
\* buffer that holds the stored form of the row of its tag.
C11_PoolTags ==
  m_built =>
    /\ \A s \in 0..(cfg.src_y - 1) :
          m_Psrc_y_flag[s] <=>
            Cardinality({i \in Slots : scan_buf_y[i] = s}) = 1
    /\ \A i \in Slots : \A j \in Slots :
          (i # j /\ scan_buf_y[i] # -1) => scan_buf_y[i] # scan_buf_y[j]
    /\ \A i \in Slots :
          scan_buf_y[i] # -1 =>
            /\ scan_buf_l[i] # NullBuf
            /\ scan_buf_l[i] = StoredRow(SourceRow(scan_buf_y[i]))

(***************************************************************************)
(* C12: the life of the slot buffers.                                      *)
(***************************************************************************)
\* C12 as stated: under every step of put_line, get_line and restart a
\* slot buffer that is allocated stays allocated.
C12_NeverFreed ==
  [][\A i \in Slots : scan_buf_l[i] # NullBuf => scan_buf_l'[i] # NullBuf]_vars

\* C12: put_line and get_line never free a slot buffer: get_line leaves
\* every buffer as it is (releasing a slot only sets its tag to -1), and
\* put_line touches at most the buffer of the slot it tags, allocating it
\* only if it was not allocated.  restart frees every buffer when the
\* status is OK and leaves every buffer alone otherwise.
C12_BuffersKept ==
  [][/\ call'.op = "get_line" => scan_buf_l' = scan_buf_l
     /\ call'.op = "put_line" =>
          \A i \in Slots :
             /\ scan_buf_l[i] # NullBuf => scan_buf_l'[i] # NullBuf
             /\ scan_buf_l'[i] # scan_buf_l[i] =>
                  /\ scan_buf_y[i] = -1
                  /\ scan_buf_y'[i] = m_cur_src_y
                  /\ call'.ret = "true"
     /\ call'.op = "restart" =>
          scan_buf_l' = IF m_status = STATUS_OKAY THEN FreshBufs
                        ELSE scan_buf_l]_vars

\* get_line has just released a slot whose buffer is still allocated.
C12_Witness ==
  /\ call = [op |-> "get_line", ret |-> "row"]
  /\ \E i \in Slots : scan_buf_y[i] = -1 /\ scan_buf_l[i] # NullBuf

(***************************************************************************)
(* The axis-order choice on its own, for large images.  probe holds the    *)
(* arguments of one constructor call; the engine variables                 *)
(* m_delay_x_resample and m_intermediate_x take the choice.                *)
(***************************************************************************)
\* count_ops(Pclist, dst): the sum of the list lengths.  Every list has at
\* least one entry; with lists of taps entries the sum is taps * dst when
\* enlarging or at unity scale, and every source sample is referenced
\* about taps times when reducing.
MaxTaps == 3
OpsCount(src, dst, taps) == taps * (IF src > dst THEN src ELSE dst)

\* Image dimensions of the constructor calls, up to 65535.
OpsDims == {1, 2, 16384, 30000, 65535}

OpsProbes ==
  { [kind |-> "ops", stage |-> "input",
     src_x |-> sx, src_y |-> sy, dst_x |-> dx, dst_y |-> dy,
     x_ops |-> OpsCount(sx, dx, tx), y_ops |-> OpsCount(sy, dy, ty)] :
    sx \in OpsDims, sy \in OpsDims, dx \in OpsDims, dy \in OpsDims,
    tx \in 1..MaxTaps, ty \in 1..MaxTaps }

InitOps ==
  /\ probe \in OpsProbes
  /\ cfg = <<>>
  /\ m_status = STATUS_OKAY
  /\ m_built = FALSE
  /\ m_Pclist_x = NullClist
  /\ m_Pclist_y = NullClist
  /\ m_delay_x_resample = FALSE
  /\ m_intermediate_x = 0
  /\ m_Ptmp_buf = NullBuf
  /\ m_cur_src_y = 0
  /\ m_cur_dst_y = 0
  /\ m_Psrc_y_count = <<>>
  /\ m_Psrc_y_flag = <<>>
  /\ scan_buf_y = FreshTags
  /\ scan_buf_l = FreshBufs
  /\ m_Pdst_buf = NullBuf
  /\ call = [op |-> "none", ret |-> "none"]
  /\ crashed = FALSE

\* The block of the constructor that chooses the axis order.
ChooseOrder ==
  /\ probe.kind = "ops" /\ probe.stage = "input"
  /\ \E d \in delay_x_resample(probe.x_ops, probe.y_ops, probe.src_x,
                               probe.src_y, probe.dst_x, probe.dst_y) :
       /\ m_delay_x_resample' = d
       /\ m_intermediate_x' = IF d THEN probe.src_x ELSE probe.dst_x
  /\ probe' = [probe EXCEPT !.stage = "done"]
  /\ call' = [op |-> "Resampler", ret |-> "none"]
  /\ UNCHANGED <<cfg, m_status, m_built, m_Pclist_x, m_Pclist_y, m_Ptmp_buf,
                 m_cur_src_y, m_cur_dst_y, m_Psrc_y_count, m_Psrc_y_flag,
                 scan_buf_y, scan_buf_l, m_Pdst_buf, crashed>>

NextOps == ChooseOrder

SpecOps == InitOps /\ [][NextOps]_vars

(***************************************************************************)
(* C13: the axis order chosen at construction.                             *)
(***************************************************************************)
\* C13: after the constructor has chosen the axis order for dimensions up
\* to 65535, m_delay_x_resample is TRUE exactly when xy_ops > yx_ops, or
\* xy_ops = yx_ops and src_x < dst_x, on the mathematical values of the
\* two estimates, and m_intermediate_x is src_x when X is delayed and dst_x
\* otherwise.
C13_AxisOrder ==
  (probe # <<>> /\ probe.kind = "ops" /\ probe.stage = "done") =>
    /\ m_delay_x_resample =
         DelayX(probe.x_ops, probe.y_ops, probe.src_x, probe.src_y,
                    probe.dst_x, probe.dst_y)
    /\ m_intermediate_x =
         IF m_delay_x_resample THEN probe.src_x ELSE probe.dst_x

(***************************************************************************)
(* C14: put_line when the slot buffer cannot be allocated.                 *)
(***************************************************************************)
\* C14: a put_line that fails on the allocation of the buffer of the slot
\* it chose (a row is due, it is referenced, a slot is free, and the call
\* returns false) sets the status to OutOfMemory and leaves m_cur_src_y,
\* every present flag and every slot tag as they were; and after any step
\* every row marked present has a tagged slot with an allocated buffer.
C14_FailedAllocation ==
  [][/\ ( /\ call'.op = "put_line" /\ call'.ret = "false"
          /\ m_built
          /\ m_cur_src_y < cfg.src_y
          /\ m_Psrc_y_count[m_cur_src_y] # 0
          /\ FindSlot(scan_buf_y, -1, 1) # 0 )
        => /\ m_status' = STATUS_OUT_OF_MEMORY
           /\ m_cur_src_y' = m_cur_src_y
           /\ m_Psrc_y_flag' = m_Psrc_y_flag
           /\ scan_buf_y' = scan_buf_y
     /\ m_built =>
          \A s \in 0..(cfg.src_y - 1) :
             m_Psrc_y_flag'[s] =>
               \E i \in Slots : scan_buf_y'[i] = s /\ scan_buf_l'[i] # NullBuf]_vars

(***************************************************************************)
(* C15: the reference counts.                                              *)
(***************************************************************************)
\* C15: in every state of a constructed engine with status OK, the count
\* of source row s is the number of entries of the Y lists of destination
\* rows m_cur_dst_y .. dst_y-1 that reference s; so no count is negative,
\* a row that was put is present exactly as long as a pending destination
\* row references it, and a present row has a positive count and an index
\* below m_cur_src_y.
C15_RefCounts ==
  (m_built /\ m_status = STATUS_OKAY) =>
    \A s \in 0..(cfg.src_y - 1) :
       /\ m_Psrc_y_count[s] = CountRefs(m_Pclist_y, m_cur_dst_y, s)
       /\ m_Psrc_y_count[s] >= 0
       /\ m_Psrc_y_flag[s] => (m_Psrc_y_count[s] > 0 /\ s < m_cur_src_y)
       /\ (s < m_cur_src_y /\ m_Psrc_y_count[s] > 0) => m_Psrc_y_flag[s]

\* get_line has just produced the last destination row that needed a
\* source row: the row is released while another row is still present.
C15_Witness ==
  /\ m_built /\ m_status = STATUS_OKAY
  /\ call = [op |-> "get_line", ret |-> "row"]
  /\ m_cur_dst_y < cfg.dst_y
  /\ \E s \in 0..(cfg.src_y - 1) :
        /\ s < m_cur_src_y
        /\ CountRefs(m_Pclist_y, 0, s) > 0
        /\ m_Psrc_y_count[s] = 0
        /\ ~m_Psrc_y_flag[s]
  /\ \E s \in 0..(cfg.src_y - 1) : m_Psrc_y_flag[s]

ClistIndices(w, kept, left, src_x, boundary_op) ==
  LET nth == [n \in 1..Cardinality(kept) |->
                CHOOSE k \in kept : Cardinality({x \in kept : x < k}) = n - 1]
  IN  SubSeq([n \in 1..Cardinality(kept) |->
                reflect(left + nth[n] - 1, src_x, boundary_op)],
             1, Cardinality(kept))

\* The values of n of destination sample i, as ClistOne stores them.
ClistResolved(i, src_x, dst_x, boundary_op, filter, filter_scale, src_ofs) ==
  LET xscale == Rat(dst_x, src_x)
      center == ClistCenter(i, xscale, src_ofs)
      half_width == ClistHalfWidth(src_x, dst_x, filter, filter_scale)
      left == RFloor(RSub(center, half_width))
      right == RCeil(RAdd(center, half_width))
      n == right - left + 1
      raw == SubSeq([k \in 1..n |->
                       ClistRaw(left + k - 1, center, src_x, dst_x, filter,
                                filter_scale)], 1, n)
      total == RSumFrom(raw, 1, n)
  IN  IF total = RZero THEN <<>>
      ELSE LET norm == RDiv(ROne, total)
               w == SubSeq([k \in 1..n |-> RMul(raw[k], norm)], 1, n)
           IN  ClistIndices(w, {k \in 1..n : w[k] # RZero}, left, src_x,
                            boundary_op)

\* Row lengths around 2^16, and the destination lengths paired with them:
\* unity scale, and halving or doubling.
LongLens == {65535, 65536, 65537, 65538, 131072}
LongPairs ==
  { <<n, n>> : n \in LongLens } \cup { <<131072, 65536>>, <<65537, 131074>> }

\* Destination samples at the two ends of the row and around index 2^16.
LongSamples(dst_x) ==
  { i \in {0, 1, 32768, 65534, 65535, 65536, 65537, dst_x - 2, dst_x - 1} :
      i < dst_x }

LongProbes ==
  UNION { { [kind |-> "long", stage |-> "input", src_x |-> d[1],
             dst_x |-> d[2], i |-> i, boundary_op |-> op, filter |-> f,
             list |-> NullClist, n |-> <<>>] :
            i \in LongSamples(d[2]), op \in BoundaryOps, f \in FilterNames } :
          d \in LongPairs }

InitLong ==
  /\ probe \in LongProbes
  /\ cfg = <<>>
  /\ m_status = STATUS_OKAY
  /\ m_built = FALSE
  /\ m_Pclist_x = NullClist
  /\ m_Pclist_y = NullClist
  /\ m_delay_x_resample = FALSE
  /\ m_intermediate_x = 0
  /\ m_Ptmp_buf = NullBuf
  /\ m_cur_src_y = 0
  /\ m_cur_dst_y = 0
  /\ m_Psrc_y_count = <<>>
  /\ m_Psrc_y_flag = <<>>
  /\ scan_buf_y = FreshTags
  /\ scan_buf_l = FreshBufs
  /\ m_Pdst_buf = NullBuf
  /\ call = [op |-> "none", ret |-> "none"]
  /\ crashed = FALSE

\* The body of make_clist's loop for destination sample i.
MakeList ==
  /\ probe.kind = "long" /\ probe.stage = "input"
  /\ probe' = [probe EXCEPT
                 !.stage = "list",
                 !.list = ClistOne(probe.i, probe.src_x, probe.dst_x,
                                   probe.boundary_op, probe.filter, ROne,
                                   RZero),
                 !.n = ClistResolved(probe.i, probe.src_x, probe.dst_x,
                                     probe.boundary_op, probe.filter, ROne,
                                     RZero)]
  /\ UNCHANGED <<cfg, engine, call, crashed>>

NextLong == MakeList

SpecLong == InitLong /\ [][NextLong]_vars

(***************************************************************************)
(* C17: the narrowing store of the source index.                           *)
(***************************************************************************)
\* C17: in every list make_clist builds, for rows longer than 65536
\* samples too, the pixel field of each entry equals the int n that
\* reflect returned for its footprint index.
C17_StoredIndex ==
  (probe # <<>> /\ probe.kind = "long" /\ probe.stage = "list"
     /\ probe.list # NullClist) =>
    /\ Len(probe.list) = Len(probe.n)
    /\ \A k \in 1..Len(probe.list) : probe.list[k].pixel = probe.n[k]

====
